---- MODULE Spec2Model ----
(***************************************************************************)
(* The streaming-response reconciliation state machine of the Agri-Bot     *)
(* frontend: the three useStreamingChat hooks (the two EventSource hooks   *)
(* and the request/response replay hook) and the useChatManager store.     *)
(*                                                                         *)
(* React applies the queued setState updaters in the order they were       *)
(* queued, each on the state the previous one returned; an action below is *)
(* one callback (a call, an event handler, a timer or promise              *)
(* continuation) together with the updaters it queues.                     *)
(***************************************************************************)
EXTENDS Integers, Sequences, FiniteSets, TLC

\* ------------------------------------------------------------------ bounds
\* startStreaming calls made on one hook instance
MaxStarts == 2
\* events dispatched to onmessage handlers, over all transports
MaxEvents == 3
\* largest `index` a reasoning_step event carries
MaxIndex == 2
\* longest assistant text (in characters) the backend returns
MaxLen == 3
\* chat sessions the backend creates
MaxSessions == 2
\* requests useChatManager issues
MaxOps == 3
\* sendMessage calls of ChatInterface
MaxSends == 2
\* the clock stops at this time (ms)
MaxTime == 9000
\* requests of the page in flight at once
MaxPending == 2
\* refresh timeouts pending at once, per session
MaxTimers == 2

\* ------------------------------------------------------------ JS values
\* null (error: string | null, eventSourceRef.current)
Null == "<null>"
\* a numeric field the payload does not carry (undefined)
NoNum == -1
\* progress is held in units of 1/PScale percent, so that the replay's
\* 75 + ((i + 1) / words.length) * 20 is exact for up to six words
PScale == 12

Pct(n) == n * PScale

\* x || y on numbers: undefined and 0 are falsy
OrNum(x, y) == IF x # NoNum /\ x # 0 THEN x ELSE y

\* x || y on strings: undefined and '' are falsy; a string field that the
\* payload does not carry is written "" here, since the code reads every
\* such field through || or &&
OrStr(x, y) == IF x # "" THEN x ELSE y

\* the three files that define useStreamingChat
HOOKS == "agri-frontend/hooks/useStreamingChat.ts"
LIB == "useStreamingChat.ts (apiService)"
FALLBACK == "frontend/src/components/StreamingText.tsx"

Variants == {HOOKS, LIB, FALLBACK}

VARIABLES
  variant,         \* which useStreamingChat the surface uses
  authToken,       \* localStorage 'auth_token' present
  reply,           \* content of the assistant message the backend returns
  streamingState,  \* useState<StreamingState>
  eventSourceRef,  \* useRef<EventSource | null>: 0 is null, k the k-th EventSource
  open,            \* the EventSources not yet closed
  nStarts,         \* startStreaming calls so far; call k creates EventSource k
  nEvents,         \* events dispatched so far
  calls,           \* the replay hook's startStreaming calls: where each one is
  observe,         \* whether the two observers below record (SpecTraced)
  lastSrc,         \* observer: the EventSource whose handler ran last (0: none)
  errored,         \* observer: transports that delivered an `error` event
                   \* since the last startStreaming
  stopSeen,        \* observer: the replay calls that had words left to emit
                   \* when stopStreaming was last called
  stepKept,        \* observer: per index, step of the last reasoning_step event
                   \* folded since the reset that carried a non-empty step
  state,           \* useChatManager: useState<ChatManagerState>
  srvSessions,     \* backend: the sessions that exist, newest first
  srvMessages,     \* backend: the messages of each session
  srvCreated,      \* backend: sessions created so far (ids are never reused)
  pending,         \* useChatManager: the requests in flight
  nOps,            \* requests issued so far
  lastSettled,     \* observer: the request settled last and how it settled
  errorTimer,      \* the page: the 5 s timeout of the error-clear effect is set
  uiMessages,      \* ChatInterface: useState<Message[]> (messages)
  uiIsThinking,    \* ChatInterface: isThinking
  uiSessionId,     \* ChatInterface: sessionId (0: null)
  uiSends,         \* ChatInterface: where each sendMessage call is, and the
                   \* session its request goes to (currentSessionId, 0: none)
  nSends,          \* ChatInterface: sendMessage calls so far
  now,             \* Date.now(), in ms since the component mounted
  refreshTimers,   \* the page: per session id, the timeouts of the post-stream
                   \* refresh effect that are set and have not fired
  lastChoice,      \* observer: the session the user's last completed
                   \* selection or creation made current (0: none)
  userActive,      \* the user is still at the page
  pageMessages     \* agri-frontend page: useState<Message[]> (messages)

hookVars == <<variant, authToken, reply, streamingState, eventSourceRef, open,
              nStarts, nEvents, calls, observe, lastSrc, errored, stepKept,
              stopSeen>>

storeVars == <<state, srvSessions, srvMessages, srvCreated, pending, nOps, lastSettled,
               errorTimer>>

uiVars == <<uiMessages, uiIsThinking, uiSessionId, uiSends, nSends, now>>

pageVars == <<refreshTimers, lastChoice, userActive, pageMessages>>

vars == <<hookVars, storeVars, uiVars, pageVars>>

\* ---------------------------------------------------- sparse JS arrays
\* An element of reasoningSteps: a hole (index never assigned), the value
\* undefined, or an object.  Objects made by the reasoning_step case carry
\* step, index and completed; { ...undefined, completed: true } carries
\* completed only (step "" and index NoNum stand for the absent fields).
Hole == [kind |-> "hole", step |-> "", index |-> NoNum, completed |-> FALSE]
Undefined == [kind |-> "undefined", step |-> "", index |-> NoNum, completed |-> FALSE]
StepObj(s, i, c) == [kind |-> "object", step |-> s, index |-> i, completed |-> c]

\* [...arr]: the iterator visits every index below length, a hole reads undefined
SpreadCopy(arr) == [j \in 1..Len(arr) |-> IF arr[j] = Hole THEN Undefined ELSE arr[j]]

\* arr[i] = v (i is 0-based): writes in place, or grows the array leaving holes
ArraySet(arr, i, v) ==
  [j \in 1..(IF i + 1 > Len(arr) THEN i + 1 ELSE Len(arr)) |->
     IF j = i + 1 THEN v ELSE IF j <= Len(arr) THEN arr[j] ELSE Hole]

\* a completion that leaves the steps as they are
MarkNoneCompleted(arr) == arr

\* arr.map(step => ({ ...step, completed: true })): map skips holes
MarkAllCompleted(arr) ==
  [j \in 1..Len(arr) |->
     IF arr[j] = Hole THEN Hole ELSE [arr[j] EXCEPT !.kind = "object", !.completed = TRUE]]

\* arr.map(step => ({ ...step, completed: true })) on factCheckSteps (never sparse)
MarkFactChecksCompleted(arr) == [j \in 1..Len(arr) |-> [arr[j] EXCEPT !.completed = TRUE]]

\* ------------------------------------------------------ the view model
InitialState ==
  [isStreaming |-> FALSE, progress |-> 0, currentPhase |-> "", phaseTitle |-> "",
   sources |-> <<>>, reasoningSteps |-> <<>>, webSearchQueries |-> <<>>,
   streamingText |-> <<>>, factCheckStatus |-> "", factCheckSteps |-> <<>>,
   factCheckCorrections |-> "", error |-> Null, confidence |-> 0,
   validationStatus |-> "", language |-> "", sourcesUsed |-> <<>>,
   factCheckerUsed |-> FALSE]

\* a reset that spreads the previous view model instead of replacing it
ResetKeepingPrevious ==
  [streamingState EXCEPT !.isStreaming = TRUE, !.progress = 0, !.error = Null]

\* the object startStreaming passes to setStreamingState in the EventSource hooks
ResetState == [InitialState EXCEPT !.isStreaming = TRUE]

\* ---------------------------------------------------- inbound events
\* sample payloads, one or two per case of the switch
StepTexts == {"soil", "rain"}

EvStatus == [type : {"status"}, progress : {NoNum, 50}]
EvPhase == {[type |-> "phase", phase |-> "retrieval", title |-> "Searching"]}
EvPhaseComplete == [type : {"phase_complete"}, progress : {NoNum, 0, 50}]
EvSourcesFound == {[type |-> "sources_found", sources |-> <<"icar">>, progress |-> 50]}
EvAiStep == {[type |-> "ai_step", step |-> "soil"]}
EvReasoningStep ==
  [type : {"reasoning_step"}, step : StepTexts, index : 0..MaxIndex]
  \cup {[type |-> "reasoning_step", step |-> "", index |-> 0],
        [type |-> "reasoning_step", step |-> "soil", index |-> NoNum]}
EvFactCheckStep == {[type |-> "fact_check_step", step |-> "soil", status |-> "running"]}
EvWebSearchQuery == {[type |-> "web_search_query", query |-> "mandi"]}
EvResponseStart == {[type |-> "response_start"]}
EvResponseChunk == {[type |-> "response_chunk", chunk |-> <<"a">>, progress |-> 50],
                    [type |-> "response_chunk", chunk |-> <<"a", " ", "b">>, progress |-> NoNum]}
EvFactCheckResult == {[type |-> "fact_check_result", status |-> "approved", confidence |-> 90]}
EvCompletion == {[type |-> "completion", confidence |-> NoNum, validation_status |-> "approved",
                  language |-> "english", sources_used |-> <<"icar">>, fact_checker_used |-> TRUE]}
EvError == [type : {"error"}, message : {"", "backend failed"}]
\* event.data that JSON.parse rejects
Malformed == [type |-> "<malformed>"]

Events ==
  EvStatus \cup EvPhase \cup EvPhaseComplete \cup EvSourcesFound \cup EvAiStep
  \cup EvReasoningStep \cup EvFactCheckStep \cup EvWebSearchQuery \cup EvResponseStart
  \cup EvResponseChunk \cup EvFactCheckResult \cup EvCompletion \cup EvError
  \cup {Malformed}

\* ------------------------------------------------------------ the fold
\* a reasoning_step that pushes the step instead of writing it at its index
FoldReasoningStepAppend(prev, data) ==
  IF data.step # "" /\ data.index # NoNum
  THEN [prev EXCEPT !.reasoningSteps =
          Append(SpreadCopy(prev.reasoningSteps),
                 StepObj(data.step, data.index, FALSE))]
  ELSE prev

\* case 'reasoning_step'
FoldReasoningStep(prev, data) ==
  IF data.step # "" /\ data.index # NoNum
  THEN [prev EXCEPT !.reasoningSteps =
          ArraySet(SpreadCopy(prev.reasoningSteps), data.index,
                   StepObj(data.step, data.index, FALSE))]
  ELSE prev

\* case 'completion'; the EventSource hook of agri-frontend/hooks has no
\* confidence, validationStatus, language, sourcesUsed, factCheckerUsed or
\* factCheckSteps: they keep their initial values under HOOKS
FoldCompletion(v, prev, data) ==
  IF v = LIB
  THEN [prev EXCEPT !.isStreaming = FALSE, !.progress = Pct(100),
          !.confidence = OrNum(data.confidence, prev.confidence),
          !.validationStatus = data.validation_status,
          !.language = data.language,
          !.sourcesUsed = data.sources_used,
          !.factCheckerUsed = data.fact_checker_used,
          !.reasoningSteps = MarkAllCompleted(prev.reasoningSteps),
          !.factCheckSteps = MarkFactChecksCompleted(prev.factCheckSteps)]
  ELSE [prev EXCEPT !.isStreaming = FALSE, !.progress = Pct(100),
          !.reasoningSteps = MarkAllCompleted(prev.reasoningSteps)]

\* an error case that records the message and leaves isStreaming as it is
FoldErrorKeepsStreaming(prev, data) ==
  [prev EXCEPT !.error = OrStr(data.message, "An error occurred")]

\* case 'error'
FoldError(prev, data) ==
  [prev EXCEPT !.error = OrStr(data.message, "An error occurred"), !.isStreaming = FALSE]

ScaleNum(p) == IF p = NoNum THEN NoNum ELSE Pct(p)

\* the updater of onmessage: switch (data.type)
Fold(v, prev, data) ==
  CASE data.type = "status" ->
         [prev EXCEPT !.progress = OrNum(ScaleNum(data.progress), 0)]
    [] data.type = "phase" ->
         [prev EXCEPT !.currentPhase = data.phase, !.phaseTitle = data.title]
    [] data.type = "phase_complete" ->
         [prev EXCEPT !.progress = OrNum(ScaleNum(data.progress), prev.progress)]
    [] data.type = "sources_found" ->
         [prev EXCEPT !.sources = data.sources,
                      !.progress = OrNum(ScaleNum(data.progress), prev.progress)]
    [] data.type = "ai_step" /\ v = LIB ->
         [prev EXCEPT !.phaseTitle = OrStr(data.step, prev.phaseTitle)]
    [] data.type = "reasoning_step" -> FoldReasoningStep(prev, data)
    [] data.type = "fact_check_step" /\ v = LIB ->
         IF data.step # "" /\ data.status # ""
         THEN [prev EXCEPT !.factCheckSteps =
                 Append(prev.factCheckSteps,
                        [step |-> data.step, status |-> data.status,
                         completed |-> (data.status = "completed")])]
         ELSE prev
    [] data.type = "web_search_query" ->
         IF data.query # ""
         THEN [prev EXCEPT !.webSearchQueries = Append(prev.webSearchQueries, data.query)]
         ELSE prev
    [] data.type = "response_start" -> [prev EXCEPT !.streamingText = <<>>]
    [] data.type = "response_chunk" ->
         [prev EXCEPT !.streamingText = data.chunk,
                      !.progress = OrNum(ScaleNum(data.progress), prev.progress)]
    [] data.type = "fact_check_result" ->
         IF v = LIB
         THEN [prev EXCEPT !.factCheckStatus = data.status,
                           !.confidence = OrNum(data.confidence, 0)]
         ELSE [prev EXCEPT !.factCheckStatus = data.status]
    [] data.type = "completion" -> FoldCompletion(v, prev, data)
    [] data.type = "error" -> FoldError(prev, data)
    [] OTHER -> prev

\* the catch of onmessage (JSON.parse threw): agri-frontend/hooks only logs
ParseFailure(v, prev) ==
  IF v = LIB
  THEN [prev EXCEPT !.error = "Failed to parse response data", !.isStreaming = FALSE]
  ELSE prev

\* -------------------------------------------------------- observers
NoSteps == [i \in 0..MaxIndex |-> "<none>"]

\* per index, the step of the last reasoning_step event with a non-empty step
KeptAfter(kept, data) ==
  IF data.type = "reasoning_step" /\ data.index # NoNum /\ data.step # ""
  THEN [kept EXCEPT ![data.index] = data.step]
  ELSE kept

\* ------------------------------------------------ the replay hook
\* ' ' is the only character split looks for; "a" stands for any other
Alphabet == {"a", " "}
Texts == UNION {[1..n -> Alphabet] : n \in 0..MaxLen}

RECURSIVE Split(_)
\* fullText.split(' ')
Split(text) ==
  IF \A j \in 1..Len(text) : text[j] # " "
  THEN <<text>>
  ELSE LET p == CHOOSE j \in 1..Len(text) :
                  text[j] = " " /\ \A h \in 1..(j - 1) : text[h] # " "
       IN <<SubSeq(text, 1, p - 1)>> \o Split(SubSeq(text, p + 1, Len(text)))

\* a replay that joins the words without the separator
AddWordNoSeparator(currentText, words, i) == currentText \o words[i + 1]

\* currentText += (i > 0 ? ' ' : '') + words[i]     (i is 0-based)
AddWord(currentText, words, i) ==
  currentText \o (IF i > 0 THEN <<" ">> ELSE <<>>) \o words[i + 1]

\* 75 + ((i + 1) / words.length) * 20
ReplayProgress(i, n) == Pct(75) + ((i + 1) * 20 * PScale) \div n

\* the object startStreaming passes to setStreamingState in the replay hook
FallbackResetState ==
  [InitialState EXCEPT !.isStreaming = TRUE, !.progress = Pct(5),
                       !.currentPhase = "initializing",
                       !.phaseTitle = "Initializing AI system..."]

\* the catch of the replay hook's startStreaming
FallbackCatch(prev, message) ==
  [prev EXCEPT !.error = message, !.isStreaming = FALSE, !.progress = 0,
               !.streamingText = <<>>]

\* a startStreaming call of the replay hook: the await it is suspended at,
\* and its locals i and currentText
Call(pc, i, currentText) == [pc |-> pc, i |-> i, currentText |-> currentText]
Idle == Call("idle", 0, <<>>)

\* the progress updates between the 300/400 ms waits
Ticks ==
  [wait15 |-> [progress |-> 15, title |-> "Connecting to agricultural AI...", to |-> "wait30"],
   wait30 |-> [progress |-> 30, title |-> "Analyzing your query...", to |-> "wait45"],
   wait45 |-> [progress |-> 45, title |-> "Searching knowledge base...", to |-> "wait60"],
   wait60 |-> [progress |-> 60, title |-> "Generating response...", to |-> "request"]]

\* ------------------------------------------------------------- Init
\* stopStreaming was not called yet
NoStop == {}

InitHook ==
  /\ variant \in Variants
  /\ authToken \in (IF variant = HOOKS THEN {TRUE} ELSE BOOLEAN)
  /\ reply \in (IF variant = FALLBACK /\ authToken THEN Texts ELSE {<<>>})
  /\ streamingState = InitialState
  /\ eventSourceRef = 0
  /\ open = {}
  /\ nStarts = 0
  /\ nEvents = 0
  /\ calls = [k \in 1..MaxStarts |-> Idle]
  /\ lastSrc = 0
  /\ errored = {}
  /\ stepKept = NoSteps
  /\ stopSeen = NoStop

\* useChatManager's initial state; null is the session with id 0
NoSession == [id |-> 0, title |-> ""]

InitialChatState ==
  [sessions |-> <<>>, currentSession |-> NoSession, messages |-> <<>>,
   isLoading |-> FALSE, error |-> Null]

InitStore ==
  /\ state = InitialChatState
  /\ srvSessions = <<>>
  /\ srvMessages = [id \in 1..MaxSessions |-> <<>>]
  /\ srvCreated = 0
  /\ pending = {}
  /\ nOps = 0
  /\ lastSettled = [op |-> "", sid |-> 0, ok |-> TRUE, recurred |-> FALSE]
  /\ errorTimer = FALSE

\* ChatInterface's initial state
InitUi ==
  /\ uiMessages = <<>>
  /\ uiIsThinking = FALSE
  /\ uiSessionId = 0
  /\ uiSends = [k \in 1..MaxSends |-> [pc |-> "idle", timestamp |-> 0, startedAt |-> 0,
                                       sessionId |-> 0]]
  /\ nSends = 0
  /\ now = 0

\* the page right after mount
InitPage ==
  /\ refreshTimers = [sid \in 1..MaxSessions |-> 0]
  /\ lastChoice = 0
  /\ userActive = TRUE
  /\ pageMessages = <<>>

Init == InitHook /\ observe = FALSE /\ InitStore /\ InitUi /\ InitPage

InitTraced == InitHook /\ observe = TRUE /\ InitStore /\ InitUi /\ InitPage

\* ------------------------------------------- the EventSource hooks
\* startStreaming: the reset, then the EventSource and its handlers.
\* `throws` is the outcome of constructing the EventSource: LIB's
\* createStreamingEventSource throws without a token, and the constructor
\* itself can throw (EventSource undefined, malformed URL).
StartStreaming ==
  /\ variant \in {HOOKS, LIB}
  /\ nStarts < MaxStarts
  /\ nStarts' = nStarts + 1
  /\ \E throws \in BOOLEAN :
       /\ (variant = LIB /\ ~authToken) => throws
       /\ IF throws
          THEN /\ streamingState' = [ResetState EXCEPT !.error = "Failed to start streaming",
                                                       !.isStreaming = FALSE]
               /\ UNCHANGED <<eventSourceRef, open>>
               /\ lastSrc' = 0
          ELSE /\ streamingState' = ResetState
               /\ eventSourceRef' = nStarts + 1
               /\ open' = open \cup {nStarts + 1}
               /\ lastSrc' = 0
  /\ stepKept' = NoSteps
  /\ errored' = {}
  /\ UNCHANGED <<variant, authToken, reply, nEvents, calls, observe, stopSeen,
                 storeVars, uiVars, pageVars>>

\* eventSource.onmessage of EventSource t
OnMessage(t, data) ==
  /\ t \in open
  /\ nEvents < MaxEvents
  /\ nEvents' = nEvents + 1
  /\ streamingState' = IF data = Malformed
                       THEN ParseFailure(variant, streamingState)
                       ELSE Fold(variant, streamingState, data)
  /\ lastSrc' = IF observe THEN t ELSE 0
  /\ errored' = IF observe /\ data.type = "error" THEN errored \cup {t} ELSE errored
  /\ stepKept' = KeptAfter(stepKept, data)
  /\ UNCHANGED <<variant, authToken, reply, eventSourceRef, open, nStarts, calls, observe,
                 stopSeen,
                 storeVars, uiVars, pageVars>>

\* an onerror that reports the error and leaves the EventSource open
OnErrorKeepsOpen(t) ==
  /\ t \in open
  /\ streamingState' = [streamingState EXCEPT !.error = "Connection error occurred",
                                              !.isStreaming = FALSE]
  /\ lastSrc' = IF observe THEN t ELSE 0
  /\ UNCHANGED <<variant, authToken, reply, eventSourceRef, open, nStarts, nEvents,
                 calls, observe, stopSeen, errored, stepKept, storeVars, uiVars, pageVars>>

\* eventSource.onerror of EventSource t
OnError(t) ==
  /\ t \in open
  /\ streamingState' = [streamingState EXCEPT !.error = "Connection error occurred",
                                              !.isStreaming = FALSE]
  /\ open' = open \ {t}
  /\ lastSrc' = IF observe THEN t ELSE 0
  /\ UNCHANGED <<variant, authToken, reply, eventSourceRef, nStarts, nEvents, calls,
                 observe, stopSeen, errored, stepKept, storeVars, uiVars, pageVars>>

\* a stop that also dismisses the error
StopUpdaterClearsError(prev) == [prev EXCEPT !.isStreaming = FALSE, !.error = Null]

\* a stop that also discards the text received so far
StopUpdaterClearsText(prev) ==
  [prev EXCEPT !.isStreaming = FALSE, !.streamingText = <<>>]

\* the updater of stopStreaming
StopUpdater(prev) == [prev EXCEPT !.isStreaming = FALSE]

\* a stop that also ends the replay loops
StopStreamingHaltsReplay ==
  /\ open' = open \ {eventSourceRef}
  /\ eventSourceRef' = 0
  /\ streamingState' = StopUpdater(streamingState)
  /\ lastSrc' = 0
  /\ stopSeen' = IF observe
                 THEN {k \in 1..MaxStarts : calls[k].pc = "deliver"}
                 ELSE stopSeen
  /\ calls' = [k \in 1..MaxStarts |->
                 IF calls[k].pc = "deliver" THEN [calls[k] EXCEPT !.pc = "done"]
                 ELSE calls[k]]
  /\ UNCHANGED <<variant, authToken, reply, nStarts, nEvents,
                 observe, errored, stepKept, storeVars, uiVars, pageVars>>

\* stopStreaming (the same text in the three hooks)
StopStreaming ==
  /\ open' = open \ {eventSourceRef}
  /\ eventSourceRef' = 0
  /\ streamingState' = StopUpdater(streamingState)
  /\ lastSrc' = 0
  /\ stopSeen' = IF observe
                 THEN {k \in 1..MaxStarts : calls[k].pc = "deliver"}
                 ELSE stopSeen
  /\ UNCHANGED <<variant, authToken, reply, nStarts, nEvents, calls,
                 observe, errored, stepKept, storeVars, uiVars, pageVars>>

\* ------------------------------------------------ the replay hook
frame == <<variant, authToken, reply, eventSourceRef, open, nEvents, observe, stopSeen,
           lastSrc, errored, stepKept, storeVars, uiVars, pageVars>>

\* startStreaming up to its first await: the reset and the token check
FallbackStart ==
  /\ variant = FALLBACK
  /\ nStarts < MaxStarts
  /\ nStarts' = nStarts + 1
  /\ IF authToken
     THEN /\ streamingState' = FallbackResetState
          /\ calls' = [calls EXCEPT ![nStarts + 1] = Call("wait15", 0, <<>>)]
     ELSE /\ streamingState' =
               FallbackCatch(FallbackResetState, "No authentication token found")
          /\ calls' = [calls EXCEPT ![nStarts + 1] = Call("done", 0, <<>>)]
  /\ UNCHANGED frame

\* a 300/400 ms wait of call k ends; after the last one the request is sent
FallbackTick(k) ==
  /\ calls[k].pc \in DOMAIN Ticks
  /\ LET tick == Ticks[calls[k].pc] IN
       /\ streamingState' = [streamingState EXCEPT !.progress = Pct(tick.progress),
                                                   !.phaseTitle = tick.title]
       /\ calls' = [calls EXCEPT ![k].pc = tick.to]
  /\ UNCHANGED <<nStarts, frame>>

\* apiService.sendMessage of call k settles
FallbackResponse(k) ==
  /\ calls[k].pc = "request"
  /\ \E outcome \in {"rejected", "empty", "no assistant", "assistant"} :
       IF outcome = "assistant"
       THEN /\ streamingState' = [streamingState EXCEPT !.progress = Pct(75),
                                     !.phaseTitle = "Delivering response...",
                                     !.currentPhase = "response"]
            /\ calls' = [calls EXCEPT ![k].pc = "deliver"]
       ELSE /\ streamingState' =
                 FallbackCatch(streamingState,
                               CASE outcome = "rejected" -> "Failed to send message"
                                 [] outcome = "empty" -> "Empty response received"
                                 [] OTHER -> "No AI response found")
            /\ calls' = [calls EXCEPT ![k].pc = "done"]
  /\ UNCHANGED <<nStarts, frame>>

\* the wait before word i of call k ends: the word is shown
FallbackWord(k) ==
  /\ calls[k].pc = "deliver"
  /\ LET words == Split(reply)
         i == calls[k].i
         currentText == AddWord(calls[k].currentText, words, i)
     IN /\ streamingState' = [streamingState EXCEPT !.streamingText = currentText,
                                 !.progress = ReplayProgress(i, Len(words))]
        /\ calls' = [calls EXCEPT ![k] =
                       IF i + 1 < Len(words)
                       THEN Call("deliver", i + 1, currentText)
                       ELSE Call("final", i + 1, currentText)]
  /\ UNCHANGED <<nStarts, frame>>

\* the final 300 ms wait of call k ends: complete, and the 200 ms timer is set
FallbackComplete(k) ==
  /\ calls[k].pc = "final"
  /\ streamingState' = [streamingState EXCEPT !.progress = Pct(100),
                           !.phaseTitle = "Complete!",
                           !.confidence = 90,
                           !.validationStatus = "approved"]
  /\ calls' = [calls EXCEPT ![k].pc = "ending"]
  /\ UNCHANGED <<nStarts, frame>>

\* the 200 ms timer of call k fires
FallbackEnd(k) ==
  /\ calls[k].pc = "ending"
  /\ streamingState' = [streamingState EXCEPT !.isStreaming = FALSE]
  /\ calls' = [calls EXCEPT ![k].pc = "done"]
  /\ UNCHANGED <<nStarts, frame>>

Next ==
  \/ StartStreaming
  \/ \E t \in 1..MaxStarts, data \in Events : OnMessage(t, data)
  \/ \E t \in 1..MaxStarts : OnError(t)
  \/ StopStreaming
  \/ FallbackStart
  \/ \E k \in 1..MaxStarts : FallbackTick(k)
  \/ \E k \in 1..MaxStarts : FallbackResponse(k)
  \/ \E k \in 1..MaxStarts : FallbackWord(k)
  \/ \E k \in 1..MaxStarts : FallbackComplete(k)
  \/ \E k \in 1..MaxStarts : FallbackEnd(k)

Spec == Init /\ [][Next]_vars

\* the replay hook alone, with the observer stopSeen recording
InitReplay == InitTraced /\ variant = FALLBACK

NextReplay ==
  \/ FallbackStart
  \/ \E k \in 1..MaxStarts : FallbackTick(k)
  \/ \E k \in 1..MaxStarts : FallbackResponse(k)
  \/ \E k \in 1..MaxStarts : FallbackWord(k)
  \/ \E k \in 1..MaxStarts : FallbackComplete(k)
  \/ \E k \in 1..MaxStarts : FallbackEnd(k)
  \/ StopStreaming

SpecReplay == InitReplay /\ [][NextReplay]_vars

\* the same behaviours, with the observers lastSrc and errored recording
SpecTraced == InitTraced /\ [][Next]_vars

\* ------------------------------------------------- useChatManager
\* A request is settled in one step: the backend acts and the promise
\* resolves or rejects.  The ids the UI passes are those it shows.
SeqToSet(q) == {q[j] : j \in 1..Len(q)}

KnownIds == ({x.id : x \in SeqToSet(state.sessions)} \cup {state.currentSession.id}) \ {0}

\* getAuthHeaders: the Authorization header is there when a token is stored
GetAuthHeaders == [Authorization |-> authToken]

\* a fetch with getAuthHeaders(): it is sent whether or not the header is there
Request(op, sid, content) ==
  [n |-> nOps + 1, op |-> op, sid |-> sid, content |-> content,
   headers |-> GetAuthHeaders]

Message(sid, role, content) == [session_id |-> sid, role |-> role, content |-> content]

OnServer(sid) == \E x \in SeqToSet(srvSessions) : x.id = sid

ServerSession(sid) == CHOOSE x \in SeqToSet(srvSessions) : x.id = sid

\* setState(prev => ({ ...prev, isLoading: true, error: null }))
BeginLoading(prev) == [prev EXCEPT !.isLoading = TRUE, !.error = Null]

\* the updater of createSession's try block
CreateSessionUpdater(prev, newSession) ==
  [prev EXCEPT !.sessions = <<newSession>> \o prev.sessions,
               !.currentSession = newSession,
               !.messages = <<>>,
               !.isLoading = FALSE]

\* a select that replaces the session and leaves the list as it is
SelectSessionKeepsMessages(prev, session, messages) ==
  [prev EXCEPT !.currentSession = session, !.isLoading = FALSE]

\* the updater of selectSession's try block
SelectSessionUpdater(prev, session, messages) ==
  [prev EXCEPT !.currentSession = session, !.messages = messages, !.isLoading = FALSE]

\* the updater of updateSession's try block
UpdateSessionUpdater(prev, sessionId, updatedSession) ==
  [prev EXCEPT !.sessions = [j \in 1..Len(prev.sessions) |->
                               IF prev.sessions[j].id = sessionId
                               THEN updatedSession ELSE prev.sessions[j]],
               !.currentSession = IF prev.currentSession.id = sessionId
                                  THEN updatedSession ELSE prev.currentSession]

\* a delete that only filters the list
DeleteSessionKeepsCurrent(prev, sessionId) ==
  LET keep(x) == x.id # sessionId IN
  [prev EXCEPT !.sessions = SelectSeq(prev.sessions, keep)]

\* the updater of deleteSession's try block
DeleteSessionUpdater(prev, sessionId) ==
  LET keep(x) == x.id # sessionId IN
  [prev EXCEPT !.sessions = SelectSeq(prev.sessions, keep),
               !.currentSession = IF prev.currentSession.id = sessionId
                                  THEN NoSession ELSE prev.currentSession,
               !.messages = IF prev.currentSession.id = sessionId
                            THEN <<>> ELSE prev.messages]

\* a catch that also drops the selection
CatchUpdaterClearsSelection(prev, op, message) ==
  [prev EXCEPT !.error = message, !.isLoading = FALSE,
               !.currentSession = NoSession, !.messages = <<>>]

\* the updaters of the catch blocks: loadSessions, createSession and
\* selectSession also clear isLoading
CatchUpdater(prev, op, message) ==
  IF op \in {"loadSessions", "createSession", "selectSession"}
  THEN [prev EXCEPT !.error = message, !.isLoading = FALSE]
  ELSE [prev EXCEPT !.error = message]

\* an effect whose cleanup runs and that sets no timeout
ErrorEffectCleanupOnly ==
  errorTimer' = IF state'.error = state.error THEN errorTimer ELSE FALSE

\* the page's effect on [chatError, clearError], run when a render commits:
\* when chatError changed, the cleanup clears the timeout and, if chatError
\* is truthy, a new 5 s timeout is set; when it did not change, nothing runs
ErrorEffect ==
  errorTimer' = IF state'.error = state.error THEN errorTimer ELSE state'.error # Null

Issue(r) ==
  /\ nOps < MaxOps
  /\ nOps' = nOps + 1
  /\ pending' = pending \cup {r}
  /\ UNCHANGED <<hookVars, uiVars, pageVars, srvSessions, srvMessages, srvCreated, lastSettled>>

\* `message` is the message of the failure (Null when the request resolved);
\* recurred: the failure brought the message the error slot already showed
Settle(r, message) ==
  /\ r \in pending
  /\ pending' = pending \ {r}
  /\ lastSettled' = [op |-> r.op, sid |-> r.sid, ok |-> message = Null,
                     recurred |-> message # Null /\ message = state.error]
  /\ UNCHANGED <<hookVars, uiVars, pageVars, nOps>>

LoadSessions ==
  /\ Issue(Request("loadSessions", 0, ""))
  /\ state' = BeginLoading(state)
  /\ ErrorEffect

CreateSession ==
  /\ Issue(Request("createSession", 0, ""))
  /\ state' = BeginLoading(state)
  /\ ErrorEffect

SelectSession(sessionId) ==
  /\ sessionId \in KnownIds
  /\ Issue(Request("selectSession", sessionId, ""))
  /\ state' = BeginLoading(state)
  /\ ErrorEffect

\* sendMessage(content): without a current session it throws before any request
SendMessage(content) ==
  /\ state.currentSession.id # 0
  /\ Issue(Request("sendMessage", state.currentSession.id, content))
  /\ UNCHANGED state
  /\ ErrorEffect

UpdateSession(sessionId) ==
  /\ sessionId \in KnownIds
  /\ Issue(Request("updateSession", sessionId, "Renamed"))
  /\ UNCHANGED state
  /\ ErrorEffect

DeleteSession(sessionId) ==
  /\ sessionId \in KnownIds
  /\ Issue(Request("deleteSession", sessionId, ""))
  /\ UNCHANGED state
  /\ ErrorEffect

LoadSessionsResolved(r) ==
  /\ r.op = "loadSessions"
  /\ Settle(r, Null)
  /\ state' = [state EXCEPT !.sessions = srvSessions, !.isLoading = FALSE]
  /\ UNCHANGED <<srvSessions, srvMessages, srvCreated>>
  /\ ErrorEffect

CreateSessionResolved(r) ==
  /\ r.op = "createSession"
  /\ srvCreated < MaxSessions
  /\ Settle(r, Null)
  /\ LET newSession == [id |-> srvCreated + 1, title |-> "New Chat"] IN
       /\ srvSessions' = <<newSession>> \o srvSessions
       /\ state' = CreateSessionUpdater(state, newSession)
  /\ srvCreated' = srvCreated + 1
  /\ UNCHANGED srvMessages
  /\ ErrorEffect

SelectSessionResolved(r) ==
  /\ r.op = "selectSession"
  /\ OnServer(r.sid)
  /\ Settle(r, Null)
  /\ state' = SelectSessionUpdater(state, ServerSession(r.sid), srvMessages[r.sid])
  /\ UNCHANGED <<srvSessions, srvMessages, srvCreated>>
  /\ ErrorEffect

SendMessageResolved(r) ==
  /\ r.op = "sendMessage"
  /\ OnServer(r.sid)
  /\ Settle(r, Null)
  /\ LET messages == <<Message(r.sid, "user", r.content),
                        Message(r.sid, "assistant", "advice")>> IN
       /\ srvMessages' = [srvMessages EXCEPT ![r.sid] = @ \o messages]
       /\ state' = [state EXCEPT !.messages = state.messages \o messages]
  /\ UNCHANGED <<srvSessions, srvCreated>>
  /\ ErrorEffect

UpdateSessionResolved(r) ==
  /\ r.op = "updateSession"
  /\ OnServer(r.sid)
  /\ Settle(r, Null)
  /\ LET updatedSession == [id |-> r.sid, title |-> r.content] IN
       /\ srvSessions' = [j \in 1..Len(srvSessions) |->
                            IF srvSessions[j].id = r.sid
                            THEN updatedSession ELSE srvSessions[j]]
       /\ state' = UpdateSessionUpdater(state, r.sid, updatedSession)
  /\ UNCHANGED <<srvMessages, srvCreated>>
  /\ ErrorEffect

DeleteSessionResolved(r) ==
  /\ r.op = "deleteSession"
  /\ OnServer(r.sid)
  /\ Settle(r, Null)
  /\ LET keep(x) == x.id # r.sid IN srvSessions' = SelectSeq(srvSessions, keep)
  /\ srvMessages' = [srvMessages EXCEPT ![r.sid] = <<>>]
  /\ state' = DeleteSessionUpdater(state, r.sid)
  /\ UNCHANGED srvCreated
  /\ ErrorEffect

\* the non-2xx responses: with or without a status text, and with a body
\* that is not JSON, JSON without a (truthy) detail, or JSON with a detail
Responses ==
  [ok : {FALSE}, status : {500}, statusText : {"", "Internal Server Error"},
   body : {[json |-> FALSE, detail |-> ""],
           [json |-> TRUE, detail |-> ""],
           [json |-> TRUE, detail |-> "Session not found"]}]

\* fetch itself rejects
NetworkError == [ok |-> FALSE, status |-> 0, statusText |-> "", body |-> "no response"]

\* `HTTP ${response.status}`
HttpStatusLine(status) == IF status = 500 THEN "HTTP 500" ELSE "HTTP"

\* handleResponse for !response.ok: the message of the ApiError it throws
HandleResponse(response) ==
  LET errorMessage == HttpStatusLine(response.status) IN
  IF response.body.json
  THEN OrStr(response.body.detail, errorMessage)
  ELSE OrStr(response.statusText, errorMessage)

\* what a request can fail with
Failures == Responses \cup {NetworkError}

\* error instanceof Error ? error.message : 'Failed to ...'
ErrorMessage(failure) ==
  IF failure = NetworkError THEN "Failed to fetch" ELSE HandleResponse(failure)

\* the request fails (the network, a 401 for a request without a token, a 404
\* for a session the backend no longer has): the catch block of the operation
\* runs
Rejected(r, failure) ==
  /\ Settle(r, ErrorMessage(failure))
  /\ state' = CatchUpdater(state, r.op, ErrorMessage(failure))
  /\ UNCHANGED <<srvSessions, srvMessages, srvCreated>>
  /\ ErrorEffect

\* addStreamingMessage(userContent, streamingResponse)
AddStreamingMessage ==
  /\ nOps < MaxOps
  /\ nOps' = nOps + 1
  /\ state' = [state EXCEPT !.messages =
                  state.messages \o <<Message(state.currentSession.id, "user", "hi"),
                                      Message(state.currentSession.id, "assistant", "advice")>>]
  /\ UNCHANGED <<hookVars, uiVars, pageVars, srvSessions, srvMessages, srvCreated, pending, lastSettled>>
  /\ ErrorEffect

ClearError ==
  /\ state' = [state EXCEPT !.error = Null]
  /\ UNCHANGED <<hookVars, uiVars, pageVars, srvSessions, srvMessages, srvCreated, pending, nOps, lastSettled>>
  /\ ErrorEffect

\* the 5 s timeout fires: clearError()
ErrorTimerFires ==
  /\ errorTimer
  /\ state' = [state EXCEPT !.error = Null]
  /\ errorTimer' = FALSE
  /\ UNCHANGED <<hookVars, uiVars, pageVars, srvSessions, srvMessages, srvCreated, pending, nOps,
                 lastSettled>>

NextStore ==
  \/ LoadSessions
  \/ CreateSession
  \/ \E sessionId \in 1..MaxSessions : SelectSession(sessionId)
  \/ SendMessage("hi")
  \/ \E sessionId \in 1..MaxSessions : UpdateSession(sessionId)
  \/ \E sessionId \in 1..MaxSessions : DeleteSession(sessionId)
  \/ \E r \in pending : LoadSessionsResolved(r)
  \/ \E r \in pending : CreateSessionResolved(r)
  \/ \E r \in pending : SelectSessionResolved(r)
  \/ \E r \in pending : SendMessageResolved(r)
  \/ \E r \in pending : UpdateSessionResolved(r)
  \/ \E r \in pending : DeleteSessionResolved(r)
  \/ \E r \in pending : \E failure \in Failures : Rejected(r, failure)
  \/ AddStreamingMessage
  \/ ClearError
  \/ ErrorTimerFires

InitStoreOnly ==
  /\ InitStore
  /\ InitUi
  /\ InitPage
  /\ variant = LIB
  /\ authToken \in BOOLEAN
  /\ reply = <<>>
  /\ streamingState = InitialState
  /\ eventSourceRef = 0
  /\ open = {}
  /\ nStarts = 0
  /\ nEvents = 0
  /\ calls = [k \in 1..MaxStarts |-> Idle]
  /\ observe = FALSE
  /\ stopSeen = NoStop
  /\ lastSrc = 0
  /\ errored = {}
  /\ stepKept = NoSteps

SpecStore == InitStoreOnly /\ [][NextStore]_vars

\* the same, with the timeout firing once it is set and stays set
SpecStoreFair == SpecStore /\ WF_vars(ErrorTimerFires)

\* createSession, selectSession, sendMessage and deleteSession calls and
\* their responses, and nothing else
NextStoreCalls ==
  \/ CreateSession
  \/ \E sessionId \in 1..MaxSessions : SelectSession(sessionId)
  \/ SendMessage("hi")
  \/ \E sessionId \in 1..MaxSessions : DeleteSession(sessionId)
  \/ \E r \in pending : CreateSessionResolved(r)
  \/ \E r \in pending : SelectSessionResolved(r)
  \/ \E r \in pending : SendMessageResolved(r)
  \/ \E r \in pending : DeleteSessionResolved(r)
  \/ \E r \in pending : \E failure \in Failures : Rejected(r, failure)

SpecStoreCalls == InitStoreOnly /\ [][NextStoreCalls]_vars

\* -------------------------------------------------- ChatInterface
\* the sum of the durations of thinkingPhases (ms)
ThinkingDuration == 7500

\* the window of the rollback filter (ms)
RollbackWindow == 1000

\* the times that pass between two steps (ms)
Delays == {500, 1000, 6500}

Abs(x) == IF x < 0 THEN -x ELSE x

UiMessage(role, content, timestamp) ==
  [role |-> role, content |-> content, timestamp |-> timestamp]

\* prev.filter(msg => !(msg.role === 'user' &&
\*                      Math.abs(new Date(msg.timestamp).getTime() - currentTime) < 1000))
RollbackFilter(prev, currentTime) ==
  LET keep(msg) == ~(msg.role = "user"
                     /\ Abs(msg.timestamp - currentTime) < RollbackWindow)
  IN SelectSeq(prev, keep)

\* the catch of sendMessage: the filter, then the error bubble
UiCatch(prev, currentTime) ==
  Append(RollbackFilter(prev, currentTime), UiMessage("assistant", "**Error**", currentTime))

\* sendMessage from the user message on: the optimistic append, the start
\* of the thinking animation and apiService.sendMessage(currentSessionId, ..)
UiAppendAndSend(k, currentSessionId) ==
  /\ uiMessages' = Append(uiMessages, UiMessage("user", "hi", now))
  /\ uiIsThinking' = TRUE
  /\ uiSends' = [uiSends EXCEPT ![k] = [pc |-> "sending", timestamp |-> now,
                                        startedAt |-> now,
                                        sessionId |-> currentSessionId]]

uiFrame == <<hookVars, state, srvMessages, pending, nOps, lastSettled, errorTimer,
            pageVars>>

\* sendMessage is clicked (a message is typed, the user is authenticated)
UiSendMessage ==
  /\ ~uiIsThinking
  /\ nSends < MaxSends
  /\ nSends' = nSends + 1
  /\ IF uiSessionId = 0
     THEN /\ uiSends' = [uiSends EXCEPT ![nSends + 1].pc = "creating"]
          /\ UNCHANGED <<uiMessages, uiIsThinking>>
     ELSE UiAppendAndSend(nSends + 1, uiSessionId)
  /\ UNCHANGED <<uiSessionId, now, uiFrame, srvSessions, srvCreated>>

\* a rejected createChatSession after which the message is sent all the same
UiSessionRejectedStillSends(k) ==
  /\ uiSends[k].pc = "creating"
  /\ UiAppendAndSend(k, uiSessionId)
  /\ UNCHANGED <<uiSessionId, nSends, now, uiFrame, srvSessions, srvCreated>>

\* apiService.createChatSession of call k resolves: the backend has made the
\* session, whose id becomes sessionId and the target of the request
UiSessionCreated(k) ==
  /\ uiSends[k].pc = "creating"
  /\ srvCreated < MaxSessions
  /\ LET session == [id |-> srvCreated + 1, title |-> "hi"] IN
       /\ srvSessions' = <<session>> \o srvSessions
       /\ uiSessionId' = session.id
       /\ UiAppendAndSend(k, session.id)
  /\ srvCreated' = srvCreated + 1
  /\ UNCHANGED <<nSends, now, uiFrame>>

\* apiService.createChatSession of call k rejects: the catch runs with no
\* user message of this call in the list
UiSessionRejected(k) ==
  /\ uiSends[k].pc = "creating"
  /\ uiIsThinking' = FALSE
  /\ uiMessages' = UiCatch(uiMessages, now)
  /\ uiSends' = [uiSends EXCEPT ![k].pc = "done"]
  /\ UNCHANGED <<uiSessionId, nSends, now, uiFrame, srvSessions, srvCreated>>

\* Promise.all([thinkingPromise, responsePromise]) resolves: not before the
\* animation has run
UiSendResolved(k) ==
  /\ uiSends[k].pc = "sending"
  /\ now - uiSends[k].startedAt >= ThinkingDuration
  /\ \E found \in BOOLEAN :
       uiMessages' = IF found
                     THEN Append(uiMessages, UiMessage("assistant", "advice", now))
                     ELSE uiMessages
  /\ uiIsThinking' = FALSE
  /\ uiSends' = [uiSends EXCEPT ![k].pc = "done"]
  /\ UNCHANGED <<uiSessionId, nSends, now, uiFrame, srvSessions, srvCreated>>

\* apiService.sendMessage of call k rejects, at any time: the catch runs
UiSendRejected(k) ==
  /\ uiSends[k].pc = "sending"
  /\ uiIsThinking' = FALSE
  /\ uiMessages' = UiCatch(uiMessages, now)
  /\ uiSends' = [uiSends EXCEPT ![k].pc = "done"]
  /\ UNCHANGED <<uiSessionId, nSends, now, uiFrame, srvSessions, srvCreated>>

\* time passes
UiTick(d) ==
  /\ now + d <= MaxTime
  /\ now' = now + d
  /\ UNCHANGED <<uiMessages, uiIsThinking, uiSessionId, uiSends, nSends, uiFrame,
                 srvSessions, srvCreated>>

NextUi ==
  \/ UiSendMessage
  \/ \E k \in 1..MaxSends : UiSessionCreated(k)
  \/ \E k \in 1..MaxSends : UiSessionRejected(k)
  \/ \E k \in 1..MaxSends : UiSendResolved(k)
  \/ \E k \in 1..MaxSends : UiSendRejected(k)
  \/ \E d \in Delays : UiTick(d)

InitUiOnly ==
  /\ InitUi
  /\ InitStore
  /\ InitPage
  /\ variant = LIB
  /\ authToken = TRUE
  /\ reply = <<>>
  /\ streamingState = InitialState
  /\ eventSourceRef = 0
  /\ open = {}
  /\ nStarts = 0
  /\ nEvents = 0
  /\ calls = [k \in 1..MaxStarts |-> Idle]
  /\ observe = FALSE
  /\ stopSeen = NoStop
  /\ lastSrc = 0
  /\ errored = {}
  /\ stepKept = NoSteps

SpecUi == InitUiOnly /\ [][NextUi]_vars

\* the same calls under a coarse clock: time passes by a whole thinking
\* animation at once
NextUiCoarse ==
  \/ UiSendMessage
  \/ \E k \in 1..MaxSends : UiSessionCreated(k)
  \/ \E k \in 1..MaxSends : UiSessionRejected(k)
  \/ \E k \in 1..MaxSends : UiSendResolved(k)
  \/ \E k \in 1..MaxSends : UiSendRejected(k)
  \/ UiTick(ThinkingDuration)

SpecUiCoarse == InitUiOnly /\ [][NextUiCoarse]_vars

\* --------------------------------------- the page with the chat manager
\* AgriculturalAdvisor: useChatManager, the EventSource hook and the
\* post-stream refresh effect.  A render commits one callback's updates and
\* runs the effects whose dependencies changed before the next callback.

\* the events the page's streams deliver
PageEvents ==
  {[type |-> "response_chunk", chunk |-> <<"a">>, progress |-> 50]}
  \cup EvCompletion
  \cup {[type |-> "error", message |-> "backend failed"]}

\* a request of the page: `by` is who called ("user", "send", "refresh")
PageRequest(op, sid, by) ==
  [n |-> CHOOSE n \in 1..MaxPending : \A r \in pending : r.n # n,
   op |-> op, sid |-> sid, by |-> by]

PageIssue(r) ==
  /\ \E n \in 1..MaxPending : \A q \in pending : q.n # n
  /\ pending' = pending \cup {r}

\* the refresh effect, dependencies [streamingText, isStreaming,
\* currentSession, selectSession]: it runs when one of them is a different
\* value (for currentSession: a different object, which `assigned` tells)
\* and sets a timeout that nothing clears
RefreshEffect(assigned) ==
  LET ran == \/ streamingState'.streamingText # streamingState.streamingText
             \/ streamingState'.isStreaming # streamingState.isStreaming
             \/ assigned
      sid == state'.currentSession.id
  IN IF /\ ran
        /\ streamingState'.streamingText # <<>>
        /\ ~streamingState'.isStreaming
        /\ state'.currentSession # NoSession
     THEN /\ refreshTimers[sid] < MaxTimers
          /\ refreshTimers' = [refreshTimers EXCEPT ![sid] = @ + 1]
     ELSE UNCHANGED refreshTimers

pageHookFrame == <<variant, authToken, reply, calls, observe, lastSrc, errored, stepKept,
                   stopSeen>>

pageStoreFrame == <<nOps, lastSettled, errorTimer, srvMessages>>

\* startStreaming(sessionId, messageToSend, token) of the EventSource hook
PageStartStreaming ==
  /\ nStarts < MaxStarts
  /\ nStarts' = nStarts + 1
  /\ \E throws \in BOOLEAN :
       IF throws
       THEN /\ streamingState' = [ResetState EXCEPT !.error = "Failed to start streaming",
                                                    !.isStreaming = FALSE]
            /\ UNCHANGED <<eventSourceRef, open>>
       ELSE /\ streamingState' = ResetState
            /\ eventSourceRef' = nStarts + 1
            /\ open' = open \cup {nStarts + 1}

\* handleSendMessage with a current session
PageSend ==
  /\ userActive
  /\ ~streamingState.isStreaming
  /\ state.currentSession # NoSession
  /\ PageStartStreaming
  /\ UNCHANGED <<nEvents, state, pending, srvSessions, srvCreated, lastChoice, userActive,
                 pageHookFrame, pageStoreFrame, uiVars,
                 pageMessages>>
  /\ RefreshEffect(FALSE)

\* handleSendMessage without a current session: createSession first
PageSendCreating ==
  /\ userActive
  /\ ~streamingState.isStreaming
  /\ state.currentSession = NoSession
  /\ PageIssue(PageRequest("createSession", 0, "send"))
  /\ state' = BeginLoading(state)
  /\ UNCHANGED <<streamingState, eventSourceRef, open, nStarts, nEvents, srvSessions,
                 srvCreated, lastChoice, userActive, pageHookFrame, pageStoreFrame, uiVars,
                 pageMessages>>
  /\ RefreshEffect(FALSE)

\* handleNewChat (its button is disabled while chatLoading)
PageNewChat ==
  /\ userActive
  /\ ~state.isLoading
  /\ PageIssue(PageRequest("createSession", 0, "user"))
  /\ state' = BeginLoading(state)
  /\ UNCHANGED <<streamingState, eventSourceRef, open, nStarts, nEvents, srvSessions,
                 srvCreated, lastChoice, userActive, pageHookFrame, pageStoreFrame, uiVars,
                 pageMessages>>
  /\ RefreshEffect(FALSE)

\* createSession resolves; handleSendMessage then goes on to startStreaming
PageCreated(r) ==
  /\ r \in pending
  /\ r.op = "createSession"
  /\ srvCreated < MaxSessions
  /\ pending' = pending \ {r}
  /\ LET newSession == [id |-> srvCreated + 1, title |-> "New Chat"] IN
       /\ srvSessions' = <<newSession>> \o srvSessions
       /\ state' = CreateSessionUpdater(state, newSession)
       /\ lastChoice' = newSession.id
  /\ srvCreated' = srvCreated + 1
  /\ IF r.by = "send"
     THEN PageStartStreaming
     ELSE UNCHANGED <<streamingState, eventSourceRef, open, nStarts>>
  /\ UNCHANGED <<nEvents, userActive, pageHookFrame, pageStoreFrame, uiVars,
                 pageMessages>>
  /\ RefreshEffect(TRUE)

\* handleSessionSelect(sessionId) on a session of the sidebar
PageSelect(sessionId) ==
  /\ userActive
  /\ \E x \in SeqToSet(state.sessions) : x.id = sessionId
  /\ PageIssue(PageRequest("selectSession", sessionId, "user"))
  /\ state' = BeginLoading(state)
  /\ UNCHANGED <<streamingState, eventSourceRef, open, nStarts, nEvents, srvSessions,
                 srvCreated, lastChoice, userActive, pageHookFrame, pageStoreFrame, uiVars,
                 pageMessages>>
  /\ RefreshEffect(FALSE)

\* a timeout of the refresh effect fires: selectSession(currentSession.id)
\* with the session the effect captured
PageRefresh(sessionId) ==
  /\ refreshTimers[sessionId] > 0
  /\ PageIssue(PageRequest("selectSession", sessionId, "refresh"))
  /\ state' = BeginLoading(state)
  /\ refreshTimers' = [refreshTimers EXCEPT ![sessionId] = @ - 1]
  /\ UNCHANGED <<streamingState, eventSourceRef, open, nStarts, nEvents, srvSessions,
                 srvCreated, lastChoice, userActive, pageHookFrame, pageStoreFrame, uiVars,
                 pageMessages>>

\* Promise.all of selectSession resolves, for the user or for a refresh
PageSelected(r) ==
  /\ r \in pending
  /\ r.op = "selectSession"
  /\ OnServer(r.sid)
  /\ pending' = pending \ {r}
  /\ state' = SelectSessionUpdater(state, ServerSession(r.sid), srvMessages[r.sid])
  /\ lastChoice' = IF r.by = "user" THEN r.sid ELSE lastChoice
  /\ UNCHANGED <<streamingState, eventSourceRef, open, nStarts, nEvents, srvSessions,
                 srvCreated, userActive, pageHookFrame, pageStoreFrame, uiVars,
                 pageMessages>>
  /\ RefreshEffect(TRUE)

\* a request of the page rejects: the catch of createSession / selectSession
\* (handleSendMessage returns without a stream)
PageRejected(r) ==
  /\ r \in pending
  /\ pending' = pending \ {r}
  /\ state' = CatchUpdater(state, r.op, "Network error")
  /\ UNCHANGED <<streamingState, eventSourceRef, open, nStarts, nEvents, srvSessions,
                 srvCreated, lastChoice, userActive, pageHookFrame, pageStoreFrame, uiVars,
                 pageMessages>>
  /\ RefreshEffect(FALSE)

\* eventSource.onmessage of EventSource t
PageOnMessage(t, data) ==
  /\ t \in open
  /\ nEvents < MaxEvents
  /\ nEvents' = nEvents + 1
  /\ streamingState' = Fold(variant, streamingState, data)
  /\ UNCHANGED <<eventSourceRef, open, nStarts, state, pending, srvSessions, srvCreated,
                 lastChoice, userActive, pageHookFrame, pageStoreFrame, uiVars,
                 pageMessages>>
  /\ RefreshEffect(FALSE)

\* eventSource.onerror of EventSource t
PageOnError(t) ==
  /\ t \in open
  /\ streamingState' = [streamingState EXCEPT !.error = "Connection error occurred",
                                              !.isStreaming = FALSE]
  /\ open' = open \ {t}
  /\ UNCHANGED <<eventSourceRef, nStarts, nEvents, state, pending, srvSessions, srvCreated,
                 lastChoice, userActive, pageHookFrame, pageStoreFrame, uiVars,
                 pageMessages>>
  /\ RefreshEffect(FALSE)

\* the user leaves the page alone from now on
PageUserStops ==
  /\ userActive
  /\ userActive' = FALSE
  /\ UNCHANGED <<hookVars, storeVars, uiVars, refreshTimers, lastChoice, pageMessages>>

NextPage ==
  \/ PageSend
  \/ PageSendCreating
  \/ PageNewChat
  \/ \E sessionId \in 1..MaxSessions : PageSelect(sessionId)
  \/ \E sessionId \in 1..MaxSessions : PageRefresh(sessionId)
  \/ \E r \in pending : PageCreated(r)
  \/ \E r \in pending : PageSelected(r)
  \/ \E r \in pending : PageRejected(r)
  \/ \E t \in 1..MaxStarts : \E data \in PageEvents : PageOnMessage(t, data)
  \/ \E t \in 1..MaxStarts : PageOnError(t)
  \/ PageUserStops

InitPageOnly ==
  /\ InitPage
  /\ InitStore
  /\ InitUi
  /\ variant = HOOKS
  /\ authToken = TRUE
  /\ reply = <<>>
  /\ streamingState = InitialState
  /\ eventSourceRef = 0
  /\ open = {}
  /\ nStarts = 0
  /\ nEvents = 0
  /\ calls = [k \in 1..MaxStarts |-> Idle]
  /\ observe = FALSE
  /\ stopSeen = NoStop
  /\ lastSrc = 0
  /\ errored = {}
  /\ stepKept = NoSteps

SpecPage == InitPageOnly /\ [][NextPage]_vars

\* the timeouts fire and the requests settle
SpecPageFair ==
  /\ SpecPage
  /\ \A sessionId \in 1..MaxSessions : WF_vars(PageRefresh(sessionId))
  /\ WF_vars(\E r \in pending : PageCreated(r) \/ PageSelected(r) \/ PageRejected(r))

\* ------------------------------------------ the agri-frontend page
\* AgriculturalAdvisor of agri-frontend/app/page.tsx: a local message list,
\* the EventSource hook and the effect that finalizes the placeholder.
PageMessage(role, content, is_streaming) ==
  [role |-> role, content |-> content, is_streaming |-> is_streaming]

\* the updater of the finalize effect
FinalizeUpdater(prev, text) ==
  IF /\ Len(prev) > 0
     /\ prev[Len(prev)].role = "assistant"
     /\ prev[Len(prev)].is_streaming
  THEN [prev EXCEPT ![Len(prev)] = PageMessage("assistant", text, FALSE)]
  ELSE prev

\* the finalize effect, dependencies [streamingText, isStreaming, sources,
\* reasoningSteps, webSearchQueries]; `ran`: one of them is a different
\* value or array; `appended`: the list the callback's own setMessages left
FinalizeEffect(ran, appended) ==
  pageMessages' =
    IF ran /\ streamingState'.streamingText # <<>> /\ ~streamingState'.isStreaming
    THEN FinalizeUpdater(appended, streamingState'.streamingText)
    ELSE appended

\* the fold stores a new array in sources, reasoningSteps or webSearchQueries
NewArrays(data) ==
  \/ data.type \in {"sources_found", "completion"}
  \/ data.type = "reasoning_step" /\ data.step # "" /\ data.index # NoNum
  \/ data.type = "web_search_query" /\ data.query # ""

agriFrame == <<variant, authToken, reply, calls, observe, lastSrc, errored, stepKept,
               stopSeen, storeVars, uiVars, refreshTimers, lastChoice, userActive>>

\* handleSendMessage: the user message, startStreaming, the placeholder
AgriHandleSendMessage ==
  /\ ~streamingState.isStreaming
  /\ PageStartStreaming
  /\ UNCHANGED <<nEvents, agriFrame>>
  /\ FinalizeEffect(TRUE,
                    pageMessages \o <<PageMessage("user", <<"a">>, FALSE),
                                      PageMessage("assistant", <<>>, TRUE)>>)

\* eventSource.onmessage of EventSource t
AgriOnMessage(t, data) ==
  /\ t \in open
  /\ nEvents < MaxEvents
  /\ nEvents' = nEvents + 1
  /\ streamingState' = Fold(variant, streamingState, data)
  /\ UNCHANGED <<eventSourceRef, open, nStarts, agriFrame>>
  /\ FinalizeEffect(\/ NewArrays(data)
                    \/ streamingState'.streamingText # streamingState.streamingText
                    \/ streamingState'.isStreaming # streamingState.isStreaming,
                    pageMessages)

\* eventSource.onerror of EventSource t
AgriOnError(t) ==
  /\ t \in open
  /\ streamingState' = [streamingState EXCEPT !.error = "Connection error occurred",
                                              !.isStreaming = FALSE]
  /\ open' = open \ {t}
  /\ UNCHANGED <<eventSourceRef, nStarts, nEvents, agriFrame>>
  /\ FinalizeEffect(streamingState.isStreaming, pageMessages)

\* startNewChat
AgriStartNewChat ==
  /\ pageMessages # <<>>
  /\ pageMessages' = <<>>
  /\ UNCHANGED <<streamingState, eventSourceRef, open, nStarts, nEvents, agriFrame>>

NextAgri ==
  \/ AgriHandleSendMessage
  \/ \E t \in 1..MaxStarts : \E data \in Events \ {Malformed} : AgriOnMessage(t, data)
  \/ \E t \in 1..MaxStarts : AgriOnError(t)
  \/ AgriStartNewChat

SpecAgri == InitPageOnly /\ [][NextAgri]_vars

\* ====================================================== the claims
Push == {HOOKS, LIB}

steps == streamingState.reasoningSteps

\* ---------------------------------------------------------------- C1
\* C1: whenever an onmessage handler folds a `completion` event, the view
\* model it leaves has isStreaming = false, progress = 100 and every element
\* present in reasoningSteps (every index that is not a hole) is an object
\* with completed = true, whatever was folded before.
C1_CompletionFinalises ==
  [][\A t \in 1..MaxStarts : \A data \in EvCompletion :
       OnMessage(t, data) =>
         /\ streamingState'.isStreaming = FALSE
         /\ streamingState'.progress = 100 * PScale
         /\ \A j \in 1..Len(streamingState'.reasoningSteps) :
              LET e == streamingState'.reasoningSteps[j] IN
              e.kind # "hole" => e.kind = "object" /\ e.completed = TRUE]_vars

\* a completion was folded over steps that arrived out of order: index 1 was
\* never sent and reads { completed: true }, its neighbours keep their text
C1_Witness ==
  /\ variant \in Push
  /\ ~streamingState.isStreaming
  /\ streamingState.progress = 100 * PScale
  /\ Len(steps) = 3
  /\ steps[1].step # "" /\ steps[1].completed
  /\ steps[2] = [kind |-> "object", step |-> "", index |-> NoNum, completed |-> TRUE]
  /\ steps[3].step # "" /\ steps[3].completed

\* ---------------------------------------------------------------- C2
\* C2: once an EventSource has delivered an `error` event, no later event
\* of that EventSource changes the view model before the next startStreaming.
C2_FrozenAfterError ==
  [][(nEvents' = nEvents + 1 /\ lastSrc' \in errored)
       => streamingState' = streamingState]_vars

\* ---------------------------------------------------------------- C3
\* C3: a startStreaming call made while an earlier stream is live is rejected
\* or supersedes it: once a later call has installed its EventSource in
\* eventSourceRef, only that EventSource's events are folded.
C3_NoFoldFromSupersededStream ==
  [][(nEvents' = nEvents + 1 /\ eventSourceRef # 0)
       => lastSrc' = eventSourceRef]_vars

\* ---------------------------------------------------------------- C4
\* C4 as claimed: right after a reasoning_step event with index i is folded,
\* reasoningSteps[i] is an object holding that event's step text.
C4_Original ==
  [][\A t \in 1..MaxStarts : \A data \in EvReasoningStep :
       (OnMessage(t, data) /\ data.index # NoNum) =>
         /\ Len(streamingState'.reasoningSteps) > data.index
         /\ streamingState'.reasoningSteps[data.index + 1].kind = "object"
         /\ streamingState'.reasoningSteps[data.index + 1].step = data.step]_vars

\* C4 as amended: for every index i, reasoningSteps[i] holds the step text
\* of the last reasoning_step event with index i and a non-empty step that
\* was folded since the reset, in whatever order the events arrived (an
\* event with an empty or missing step is ignored).
C4_LastKeptStepAtIndex ==
  \A i \in 0..MaxIndex :
    stepKept[i] # "<none>" =>
      /\ Len(steps) > i
      /\ steps[i + 1].kind = "object"
      /\ steps[i + 1].step = stepKept[i]
      /\ steps[i + 1].index = i

\* index 2 arrived before index 0 (index 1 reads undefined, which only the
\* copy of an array with a hole produces), and index 1 never arrived
C4_Witness ==
  /\ Len(steps) = 3
  /\ steps[3].kind = "object" /\ steps[3].step = stepKept[2]
  /\ steps[2].kind = "undefined"
  /\ steps[1].kind = "object" /\ steps[1].step = stepKept[0]
  /\ stepKept[1] = "<none>"

\* ---------------------------------------------------------------- C5
\* C5: in the request/response hook, for a single startStreaming call whose
\* request returned an assistant message with content `reply`: showing a
\* word and completing never end the stream, the completing step leaves
\* streamingText = reply and progress = 100, and the step that sets
\* isStreaming to false runs only after that, with both still in place.
C5_ReplayEndsWithFullText ==
  [][\A k \in 1..MaxStarts :
       /\ (nStarts = 1 /\ FallbackWord(k)) =>
            streamingState'.isStreaming = streamingState.isStreaming
       /\ (nStarts = 1 /\ FallbackComplete(k)) =>
            /\ streamingState'.streamingText = reply
            /\ streamingState'.progress = 100 * PScale
            /\ streamingState'.isStreaming = streamingState.isStreaming
       /\ (nStarts = 1 /\ FallbackEnd(k)) =>
            /\ streamingState.streamingText = reply
            /\ streamingState.progress = 100 * PScale
            /\ streamingState'.streamingText = reply
            /\ streamingState'.progress = 100 * PScale
            /\ streamingState'.isStreaming = FALSE]_vars

\* the replay of a text of three words, one of them empty, has ended
C5_Witness ==
  /\ variant = FALLBACK
  /\ nStarts = 1
  /\ calls[1].pc = "done"
  /\ Len(Split(reply)) = 3
  /\ streamingState.streamingText = reply
  /\ streamingState.progress = 100 * PScale
  /\ ~streamingState.isStreaming
  /\ streamingState.error = Null

\* ---------------------------------------------------------------- C6
\* C6: when deleteSession(id) succeeds, no session with that id is left in
\* the session list and the other sessions stay; if id was the current
\* session, currentSession becomes null and messages empty, and otherwise
\* currentSession and messages are unchanged.
C6_DeleteSessionEffect ==
  [][\A r \in pending :
       DeleteSessionResolved(r) =>
         /\ SeqToSet(state'.sessions) =
              {x \in SeqToSet(state.sessions) : x.id # r.sid}
         /\ IF state.currentSession.id = r.sid
            THEN state'.currentSession = NoSession /\ state'.messages = <<>>
            ELSE /\ state'.currentSession = state.currentSession
                 /\ state'.messages = state.messages]_vars

\* of two created sessions the current one was deleted: it left the list,
\* the other one is still listed, and no session is current
C6_Witness ==
  /\ state.currentSession = NoSession
  /\ state.messages = <<>>
  /\ Len(state.sessions) = 1
  /\ srvCreated = 2
  /\ Len(srvSessions) = 1
  /\ state.error = Null
  /\ pending = {}

\* ---------------------------------------------------------------- C7
\* C7 as claimed: a startStreaming call that starts a stream leaves the
\* zero state: isStreaming = true, progress = 0, sources, reasoningSteps,
\* webSearchQueries and streamingText empty, error = null.
C7_Original ==
  [][(nStarts' = nStarts + 1 /\ streamingState'.error = Null) =>
       /\ streamingState'.isStreaming = TRUE
       /\ streamingState'.progress = 0
       /\ streamingState'.sources = <<>>
       /\ streamingState'.reasoningSteps = <<>>
       /\ streamingState'.webSearchQueries = <<>>
       /\ streamingState'.streamingText = <<>>]_vars

\* C7 as amended: the same, with progress = 0 in the two EventSource hooks
\* and progress = 5 in the request/response hook; nothing of the previous
\* stream (text, sources, steps, queries, fact-check results, error) is left.
C7_ResetOnStart ==
  [][(nStarts' = nStarts + 1 /\ streamingState'.error = Null) =>
       /\ streamingState'.isStreaming = TRUE
       /\ streamingState'.progress = (IF variant = FALLBACK THEN 5 * PScale ELSE 0)
       /\ streamingState'.sources = <<>>
       /\ streamingState'.reasoningSteps = <<>>
       /\ streamingState'.webSearchQueries = <<>>
       /\ streamingState'.streamingText = <<>>
       /\ streamingState'.factCheckStatus = ""
       /\ streamingState'.factCheckSteps = <<>>
       /\ streamingState'.confidence = 0
       /\ streamingState'.validationStatus = ""]_vars

\* the request/response hook has just started a second stream over the
\* text the first one had replayed
C7_Witness ==
  /\ variant = FALLBACK
  /\ nStarts = 2
  /\ calls[1].pc = "done"
  /\ calls[1].currentText # <<>>
  /\ calls[2].pc = "wait15"
  /\ streamingState.isStreaming
  /\ streamingState.streamingText = <<>>
  /\ streamingState.progress = 5 * PScale

\* ---------------------------------------------------------------- C8
\* C8: stopStreaming closes the EventSource eventSourceRef holds, if any,
\* sets isStreaming to false and leaves every other field of the view model
\* as it was; when isStreaming is already false the view model is unchanged.
C8_StopKeepsPartialState ==
  [][StopStreaming =>
       /\ eventSourceRef \notin open'
       /\ eventSourceRef' = 0
       /\ streamingState'.isStreaming = FALSE
       /\ \A f \in DOMAIN streamingState \ {"isStreaming"} :
            streamingState'[f] = streamingState[f]
       /\ (~streamingState.isStreaming => streamingState' = streamingState)]_vars

\* stopStreaming ran on a live stream that had shown part of the answer
C8_Witness ==
  /\ variant \in Push
  /\ nStarts = 1
  /\ eventSourceRef = 0
  /\ open = {}
  /\ ~streamingState.isStreaming
  /\ streamingState.error = Null
  /\ streamingState.streamingText = <<"a">>
  /\ streamingState.progress = 50 * PScale
  /\ Len(steps) > 0

\* ---------------------------------------------------------------- C9
\* C9: an event whose payload JSON.parse rejects is treated as a terminal
\* error: after it error is non-null and isStreaming is false.
C9_MalformedIsTerminalError ==
  [][\A t \in 1..MaxStarts :
       OnMessage(t, Malformed) =>
         /\ streamingState'.error # Null
         /\ streamingState'.isStreaming = FALSE]_vars

\* --------------------------------------------------------------- C10
\* C10: when startStreaming cannot construct the EventSource, or the
\* EventSource fails before any event, the request/response replay is
\* started instead: the view model is not left in the error state with no
\* replay call running.
C10_FallsBackOnPushFailure ==
  [][(\/ nStarts' = nStarts + 1 /\ variant \in Push /\ eventSourceRef' # nStarts + 1
      \/ \E t \in 1..MaxStarts : OnError(t) /\ nEvents = 0)
       => \/ streamingState'.error = Null
          \/ \E k \in 1..MaxStarts : calls'[k].pc # "idle"]_vars

\* --------------------------------------------------------------- C11
\* C11: with no auth token stored the client issues no protected REST call:
\* every request in flight carries the Authorization header.
C11_NoCallWithoutToken ==
  \A r \in pending : r.headers.Authorization

\* --------------------------------------------------------------- C12
\* C12: whenever apiService.sendMessage rejects after the optimistic user
\* message was appended, the list afterwards is the list before without that
\* user message (and only without it), followed by the error bubble,
\* however long the request took.
C12_RollbackOnFailure ==
  [][\A k \in 1..MaxSends :
       UiSendRejected(k) =>
         LET mine(msg) == ~(msg.role = "user" /\ msg.timestamp = uiSends[k].timestamp)
         IN uiMessages' = Append(SelectSeq(uiMessages, mine),
                                 UiMessage("assistant", "**Error**", now))]_vars

\* --------------------------------------------------------------- C13
\* C13: between one startStreaming reset and the next, no step lowers
\* progress or takes it out of 0..100.
C13_ProgressMonotone ==
  [][nStarts' = nStarts =>
       /\ streamingState'.progress >= streamingState.progress
       /\ streamingState'.progress \in 0..Pct(100)]_vars

\* --------------------------------------------------------------- C20
\* C20: for every non-2xx response the message of the ApiError (which the
\* catch block stores in the error slot) is the body's detail when it has
\* one and the HTTP status text otherwise.
C20_DetailElseStatusText ==
  [][\A r \in pending : \A response \in Responses :
       Rejected(r, response) =>
         state'.error = IF response.body.json /\ response.body.detail # ""
                        THEN response.body.detail
                        ELSE response.statusText]_vars

\* --------------------------------------------------------------- C14
\* C14: a selectSession call that fails applies nothing of the selection:
\* its first step changes only isLoading and error, and the step in which
\* Promise.all rejects changes only error and isLoading, so sessions,
\* currentSession and messages are what they were.
C14_FailedSelectChangesNothing ==
  [][/\ \A sessionId \in 1..MaxSessions :
          SelectSession(sessionId) =>
            state' = [state EXCEPT !.isLoading = TRUE, !.error = Null]
     /\ \A r \in pending : \A failure \in Failures :
          (r.op = "selectSession" /\ Rejected(r, failure)) =>
            /\ state' = [state EXCEPT !.error = state'.error, !.isLoading = FALSE]
            /\ state'.error # Null]_vars

\* a selectSession has just failed while a session with messages was current
C14_Witness ==
  /\ lastSettled.op = "selectSession"
  /\ ~lastSettled.ok
  /\ state.currentSession # NoSession
  /\ state.messages # <<>>
  /\ state.error # Null
  /\ ~state.isLoading
  /\ pending = {}

\* --------------------------------------------------------------- C15
\* C15: isLoading is true for as long as an operation of the store is in
\* flight: whenever a request is pending, state.isLoading holds.
C15_LoadingWhilePending ==
  \A r \in pending : state.isLoading

\* --------------------------------------------------------------- C16
\* C16: with a backend that stores what it is sent, a selectSession(id)
\* that resolves makes that session current and shows exactly the messages
\* the backend holds for it: none for a session nothing was sent to, and
\* after a sendMessage("hi") to it resolved, a list with a user message
\* whose content is "hi".
C16_SelectShowsStoredMessages ==
  [][\A r \in pending :
       SelectSessionResolved(r) =>
         /\ state'.currentSession.id = r.sid
         /\ state'.messages = srvMessages[r.sid]
         /\ (lastSettled.op = "createSession" /\ lastSettled.ok
             /\ state.currentSession.id = r.sid)
              => state'.messages = <<>>
         /\ (lastSettled.op = "sendMessage" /\ lastSettled.sid = r.sid /\ lastSettled.ok)
              => \E j \in 1..Len(state'.messages) :
                    /\ state'.messages[j].role = "user"
                    /\ state'.messages[j].content = "hi"]_vars

\* createSession, sendMessage("hi") and then selectSession of that session
\* have resolved: the list shows the user message
C16_Witness ==
  /\ lastSettled.op = "selectSession"
  /\ lastSettled.ok
  /\ state.currentSession.id = lastSettled.sid
  /\ srvCreated = 1
  /\ srvMessages[lastSettled.sid] = state.messages
  /\ state.messages = <<Message(lastSettled.sid, "user", "hi"),
                         Message(lastSettled.sid, "assistant", "advice")>>

\* --------------------------------------------------------------- C17
\* C17: the onerror handler of an EventSource sets error, sets isStreaming
\* to false and closes that EventSource; a closed EventSource runs no
\* handler again (neither onerror nor onmessage, here for the chunk,
\* completion and error events), and only a new startStreaming call opens an
\* EventSource, a new one (no reconnection).
C17_ConnectionErrorOnce ==
  [][\A t \in 1..MaxStarts :
       /\ OnError(t) =>
            /\ streamingState'.error = "Connection error occurred"
            /\ ~streamingState'.isStreaming
            /\ t \notin open'
       /\ t \notin open =>
            /\ ~OnError(t)
            /\ \A data \in EvResponseChunk \cup EvCompletion \cup EvError :
                 ~OnMessage(t, data)
       /\ (t \notin open /\ t \in open') =>
            /\ nStarts' = nStarts + 1
            /\ t = nStarts']_vars

\* the EventSource of the last startStreaming call was closed by its
\* onerror handler after it had delivered text
C17_Witness ==
  /\ variant \in Push
  /\ eventSourceRef # 0
  /\ eventSourceRef \notin open
  /\ streamingState.error = "Connection error occurred"
  /\ ~streamingState.isStreaming
  /\ streamingState.streamingText # <<>>

\* --------------------------------------------------------------- C18
\* C18: a non-null error of the streaming view model stays non-null in
\* every step that is not a startStreaming call: events, stopStreaming and
\* the timer callbacks of the replay keep it.
C18_ErrorPersistsUntilStart ==
  [][(nStarts' = nStarts /\ streamingState.error # Null)
       => streamingState'.error # Null]_vars

\* the only stream delivered an error event and was stopped afterwards:
\* the error is still shown
C18_Witness ==
  /\ nStarts = 1
  /\ eventSourceRef = 0
  /\ open = {}
  /\ streamingState.error = "backend failed"

\* --------------------------------------------------------------- C19
\* C19: whenever the error slot of the chat store is non-null it is null
\* again later: the timeout of the page's effect calls clearError, also when
\* further failures stored the same message before it fired.
C19_ErrorEventuallyCleared ==
  (state.error # Null) ~> (state.error = Null)

\* two requests failed with the same message one after the other, and the
\* timeout set for the first is still pending
C19_Witness ==
  /\ errorTimer
  /\ state.error = "Failed to fetch"
  /\ lastSettled.recurred
  /\ pending = {}

\* --------------------------------------------------------------- C21
\* C21: in the replay hook, a replay loop that had words left to emit when
\* stopStreaming was called is not halted: until it is done it is still in
\* its loop, awaiting the timer of its next word, of the completion or of
\* the end, and it is done only with the whole reply emitted
\* and (when no other call was started) with the view model showing the
\* whole reply and progress 100.
C21_StopDoesNotHaltReplay ==
  \A k \in stopSeen :
    IF calls[k].pc = "done"
    THEN /\ calls[k].currentText = reply
         /\ nStarts = 1 => /\ streamingState.streamingText = reply
                           /\ streamingState.progress = Pct(100)
    ELSE calls[k].pc \in {"deliver", "final", "ending"}

\* stopStreaming was called while the only call had words left to emit;
\* the view model shows the whole reply now
C21_Witness ==
  /\ nStarts = 1
  /\ stopSeen = {1}
  /\ calls[1].pc = "done"
  /\ Len(Split(reply)) > 1
  /\ streamingState.streamingText = reply
  /\ streamingState.progress = Pct(100)

\* --------------------------------------------------------------- C24
\* C24: while an EventSource is live, folding the same reasoning_step event
\* or the same response_chunk event twice in a row yields the view model
\* that folding it once yields.
C24_FoldIdempotent ==
  (variant # FALLBACK /\ open # {}) =>
    \A data \in EvReasoningStep \cup EvResponseChunk :
      LET once == Fold(variant, streamingState, data)
      IN Fold(variant, once, data) = once

\* --------------------------------------------------------------- C25
\* C25: folding a phase_complete event sets progress to the event's progress
\* whenever the event carries one (0 included) and leaves progress unchanged
\* when it carries none.
C25_PhaseCompleteSetsProgress ==
  [][\A t \in 1..MaxStarts : \A data \in EvPhaseComplete :
       OnMessage(t, data) =>
         streamingState'.progress = IF data.progress = NoNum
                                    THEN streamingState.progress
                                    ELSE Pct(data.progress)]_vars

\* --------------------------------------------------------------- C26
\* C26: in every reachable state of every variant of the hook, a view model
\* that shows an error is not streaming.
C26_ErrorImpliesNotStreaming ==
  streamingState.error # Null => ~streamingState.isStreaming

\* an error is shown and not streaming although a later startStreaming call
\* was made and a transport is still open
C26_Witness ==
  /\ streamingState.error # Null
  /\ ~streamingState.isStreaming
  /\ nStarts = 2
  /\ open # {}

\* --------------------------------------------------------------- C29
\* C29: in useChatManager, whenever no request is in flight, every message
\* of messages belongs to the current session, and messages is empty when
\* there is no current session.
C29_MessagesOfCurrentSession ==
  pending = {} =>
    /\ \A j \in 1..Len(state.messages) :
         state.messages[j].session_id = state.currentSession.id
    /\ state.currentSession = NoSession => state.messages = <<>>

\* --------------------------------------------------------------- C22
\* C22: a sendMessage call made with no session selected creates exactly one
\* chat session, in the step in which it starts its request, and the
\* request goes to that new session; a call whose session creation fails
\* ends without a request and without a session; no other step of a call
\* creates a session, and a call made with a session selected sends to it.
C22_OneSessionPerFirstSend ==
  [][\A k \in 1..MaxSends :
       LET starts == uiSends[k].pc # "sending" /\ uiSends'[k].pc = "sending"
           wasCreating == uiSends[k].pc = "creating"
           created == {x.id : x \in SeqToSet(srvSessions')}
                        \ {x.id : x \in SeqToSet(srvSessions)}
       IN /\ (wasCreating /\ starts) =>
               /\ Cardinality(created) = 1
               /\ srvCreated' = srvCreated + 1
               /\ created = {uiSends'[k].sessionId}
               /\ uiSessionId' = uiSends'[k].sessionId
          /\ (wasCreating /\ uiSends'[k].pc # "creating" /\ ~starts) =>
               /\ uiSends'[k].pc = "done"
               /\ created = {}
               /\ srvCreated' = srvCreated
          /\ (~wasCreating /\ starts) =>
               /\ created = {}
               /\ uiSessionId # 0
               /\ uiSends'[k].sessionId = uiSessionId
          /\ (\A j \in 1..MaxSends : ~(uiSends[j].pc = "creating"
                                       /\ uiSends'[j].pc = "sending"))
               => created = {}]_vars

\* the first call's session creation failed and it ended without a request;
\* the second call created session 1 and its request to session 1 is in
\* flight
C22_Witness ==
  /\ uiSends[1].pc = "done"
  /\ uiSends[2].pc = "sending"
  /\ uiSends[2].sessionId = 1
  /\ uiSessionId = 1
  /\ srvCreated = 1
  /\ Len(srvSessions) = 1

\* --------------------------------------------------------------- C23
\* C23: on the page, the step in which a stream ends by a completion event,
\* an error event or a connection error while a session is current sets the
\* timeout of a refresh of that session (selectSession(currentSession.id)),
\* whether or not response text was received.
C23_RefreshAfterTerminalEvent ==
  [][\A t \in 1..MaxStarts :
       (/\ streamingState.isStreaming
        /\ state.currentSession # NoSession
        /\ \/ PageOnError(t)
           \/ \E data \in PageEvents : /\ data.type \in {"completion", "error"}
                                       /\ PageOnMessage(t, data))
       => refreshTimers'[state.currentSession.id]
            = refreshTimers[state.currentSession.id] + 1]_vars

\* --------------------------------------------------------------- C27
\* C27: once a stream has completed with non-empty text and the user does
\* nothing further, the page comes to rest: eventually no refresh timeout
\* is pending and no request is in flight.
C27_RefreshComesToRest ==
  (/\ ~userActive
   /\ ~streamingState.isStreaming
   /\ streamingState.progress = Pct(100)
   /\ streamingState.streamingText # <<>>)
    ~> (/\ \A sessionId \in 1..MaxSessions : refreshTimers[sessionId] = 0
        /\ pending = {})

\* --------------------------------------------------------------- C28
\* C28: once every refresh timeout has fired and every request has settled,
\* the current session is the one the user's last completed selection or
\* creation chose, and the messages shown are that session's.
C28_RefreshKeepsNewerChoice ==
  (/\ lastChoice # 0
   /\ pending = {}
   /\ \A sessionId \in 1..MaxSessions : refreshTimers[sessionId] = 0)
    => /\ state.currentSession.id = lastChoice
       /\ state.messages = srvMessages[lastChoice]

\* --------------------------------------------------------------- C30
\* C30: on the agri-frontend page, once a started stream is over (the view
\* model is not streaming after a completion, an error event or a
\* connection error) no message of the list is still marked is_streaming,
\* and after a completion the last assistant message holds the final
\* streamingText.
C30_PlaceholderFinalized ==
  (/\ nStarts > 0
   /\ ~streamingState.isStreaming
   /\ streamingState.error # "Failed to start streaming")
    => /\ \A j \in 1..Len(pageMessages) : ~pageMessages[j].is_streaming
       /\ (streamingState.progress = Pct(100) /\ pageMessages # <<>>)
            => /\ pageMessages[Len(pageMessages)].role = "assistant"
               /\ pageMessages[Len(pageMessages)].content = streamingState.streamingText

====
